---- MODULE Spec2Model ----
(***************************************************************************)
(* A model of software4students/chessgame.py: the board (ChessBoard), the  *)
(* move rules, the move generator and the minimax / alpha-beta search      *)
(* (ChessComputer).                                                        *)
(*                                                                         *)
(* Conventions                                                             *)
(*  - a coordinate is a pair <<x, y>> (Python's (x, y); x is the file      *)
(*    index, y the row index of board_matrix, row 0 being rank 8);         *)
(*  - a string is the sequence of its character codes, so "a1a8" is        *)
(*    <<97, 49, 97, 56>>;                                                  *)
(*  - a Python call that may raise returns Ok(value) or Exc(name);         *)
(*  - a Python list indexed from 0 is a function on 0..n-1, and indexing   *)
(*    follows Python: -n..-1 wrap around, anything else is an IndexError.  *)
(***************************************************************************)
EXTENDS Integers, Sequences, FiniteSets, TLC

VARIABLES heap, chessboard, boards, call, depth, result, outcome

vars == <<heap, chessboard, boards, call, depth, result, outcome>>

----------------------------------------------------------------------------
(* Results of calls *)

Ok(v) == [ok |-> TRUE, val |-> v]

Exc(e) == [ok |-> FALSE, exc |-> e]

----------------------------------------------------------------------------
(* Material, Side, Piece *)

Rook == "r"

King == "k"

Pawn == "p"

Queen == "q"

Bishop == "b"

Material == {Rook, King, Pawn, Queen, Bishop}

White == 0

Black == 1

Side == {White, Black}

Piece(side, material) == [side |-> side, material |-> material]

None == [none |-> TRUE]

BoardSize == 8

Idx == 0 .. (BoardSize - 1)

----------------------------------------------------------------------------
(* Helper functions: notation <-> coordinates *)

OrdA == 97

Ord0 == 48

\* int(c) of a one-digit string
int(c) == c - Ord0

\* str(n) of a one-digit number
str(n) == <<Ord0 + n>>

to_coordinate(notation) ==
    LET x == notation[1] - OrdA
        y == 8 - int(notation[2])
    IN  <<x, y>>

to_notation(coordinates) ==
    LET x == coordinates[1]
        y == coordinates[2]
        letter == <<OrdA + x>>
        number == 8 - y
    IN  letter \o str(number)

to_move(from_coord, to_coord) == to_notation(from_coord) \o to_notation(to_coord)

----------------------------------------------------------------------------
(* ChessBoard: a record [turn, board_matrix]; board_matrix[y][x] *)

ChessBoard(turn, board_matrix) == [turn |-> turn, board_matrix |-> board_matrix]

\* Python's list index on a list of length BoardSize
InRange(i) == i >= -BoardSize /\ i < BoardSize

get_boardpiece(self, position) ==
    LET x == position[1]
        y == position[2]
    IN  IF InRange(y) /\ InRange(x)
        THEN Ok(self.board_matrix[y % BoardSize][x % BoardSize])
        ELSE Exc("IndexError")

is_king_dead(self, side) ==
    LET seen_king == \E x \in Idx : \E y \in Idx :
            LET piece == self.board_matrix[y][x]
            IN  piece # None /\ piece.side = side /\ piece.material = King
    IN  ~seen_king

\* Python's == between what a square holds (a Piece object or None) and a
\* str: Piece defines no __eq__, so the two are never equal
eq_str(piece, material) == FALSE

\* check_kings_only comparing the material of the piece:
\* "piece != None and piece.material != Material.King"
check_kings_only_material(self) ==
    IF \E c \in Idx \X Idx : LET piece == get_boardpiece(self, c).val
                              IN  piece # None /\ piece.material # King
    THEN FALSE
    ELSE Cardinality({c \in Idx \X Idx :
             LET piece == get_boardpiece(self, c).val
             IN  piece # None /\ piece.material = King}) = 2

\* the loop returns False on the first square with
\* "piece != Material.King and not None"; without such a square it counts
\* the squares with "piece == Material.King" and returns "counter == 2"
check_kings_only(self) ==
    IF \E c \in Idx \X Idx :
           ~eq_str(get_boardpiece(self, c).val, King) /\ ~FALSE
    THEN FALSE
    ELSE Cardinality({c \in Idx \X Idx :
             eq_str(get_boardpiece(self, c).val, King)}) = 2

----------------------------------------------------------------------------
(* Move rules *)

abs(n) == IF n < 0 THEN -n ELSE n

\* "0 > a > 7" is Python's chained comparison: (0 > a) and (a > 7)
outside_board(start, end) ==
    IF (0 > start[1] /\ start[1] > 7) \/ (0 > start[2] /\ start[2] > 7)
    THEN TRUE
    ELSE IF (0 > end[1] /\ end[1] > 7) \/ (0 > end[2] /\ end[2] > 7)
    THEN TRUE
    ELSE IF end = start
    THEN TRUE
    ELSE FALSE

spot_occupied(self, start_pos, end_pos) ==
    LET piece == get_boardpiece(self, start_pos)
        piece_end == get_boardpiece(self, end_pos)
    IN  IF ~piece.ok THEN piece
        ELSE IF ~piece_end.ok THEN piece_end
        ELSE IF piece_end.val = None THEN Ok(FALSE)
        ELSE IF piece.val = None THEN Exc("AttributeError")
        ELSE IF piece_end.val.side # piece.val.side THEN Ok(FALSE)
        ELSE Ok(TRUE)

\* the two Pawn branches differ only in the row step: -1 for White, 1 for Black
pawn_restriction(self, start, end, step) ==
    IF end[2] - start[2] = step
    THEN IF abs(start[1] - end[1]) = 1
         THEN LET target == get_boardpiece(self, end)
              IN  IF ~target.ok THEN target
                  ELSE IF target.val # None THEN Ok(FALSE)
                  ELSE Ok(TRUE)
         ELSE IF start[1] = end[1] THEN Ok(FALSE)
         ELSE Ok(TRUE)
    ELSE Ok(TRUE)

rook_restriction(start, end) ==
    IF start[1] - end[1] # 0
    THEN IF start[2] - end[2] # 0 THEN TRUE ELSE FALSE
    ELSE IF start[2] - end[2] # 0
    THEN IF start[1] - end[1] # 0 THEN TRUE ELSE FALSE
    ELSE FALSE

queen_restriction(start, end) ==
    LET horizontal == start[1] - end[1]
        vertical == start[2] - end[2]
    IN  IF horizontal # 0 /\ vertical # 0 /\ horizontal # vertical
        THEN TRUE
        ELSE FALSE

bishop_restriction(start, end) ==
    LET horizontal == start[1] - end[1]
        vertical == start[2] - end[2]
    IN  IF horizontal # 0 /\ vertical # 0 /\ horizontal = vertical
        THEN FALSE
        ELSE TRUE

king_restriction(start, end) ==
    IF abs(start[1] - end[1]) > 1 THEN TRUE
    ELSE IF abs(start[2] - end[2]) > 1 THEN TRUE
    ELSE FALSE

piece_restriction(self, start, end) ==
    LET piece == get_boardpiece(self, start)
    IN  IF ~piece.ok THEN piece
        \* "self.turn != piece.side" is evaluated before "None == piece"
        ELSE IF piece.val = None THEN Exc("AttributeError")
        ELSE IF self.turn # piece.val.side THEN Ok(TRUE)
        ELSE IF Pawn = piece.val.material /\ self.turn = White
        THEN pawn_restriction(self, start, end, -1)
        ELSE IF Pawn = piece.val.material /\ self.turn = Black
        THEN pawn_restriction(self, start, end, 1)
        ELSE IF Rook = piece.val.material THEN Ok(rook_restriction(start, end))
        ELSE IF Queen = piece.val.material THEN Ok(queen_restriction(start, end))
        ELSE IF Bishop = piece.val.material THEN Ok(bishop_restriction(start, end))
        ELSE Ok(king_restriction(start, end))

\* a for loop "for i in range(lo, hi): if get_boardpiece(sq(i)) is not None:
\* return True", followed by "return False"; Square(i) is the square looked at
RECURSIVE scan_range(_, _, _, _, _, _)
scan_range(self, start, lo, hi, dx, dy) ==
    IF lo >= hi THEN Ok(FALSE)
    ELSE LET piece == get_boardpiece(self, <<start[1] + dx * lo, start[2] + dy * lo>>)
         IN  IF ~piece.ok THEN piece
             ELSE IF piece.val # None THEN Ok(TRUE)
             ELSE scan_range(self, start, lo + 1, hi, dx, dy)

check_line(self, start, move_num, dx, dy) ==
    IF move_num < 0
    THEN scan_range(self, start, 1, abs(move_num), dx, dy)
    ELSE scan_range(self, start, -move_num + 1, 0, dx, dy)

check_horizontal(self, start, end) == check_line(self, start, start[1] - end[1], 1, 0)

check_vertical(self, start, end) == check_line(self, start, start[2] - end[2], 0, 1)

check_diagonal(self, start, end) == check_line(self, start, start[1] - end[1], 1, 1)

path_obstructed(self, start, end) ==
    LET horizontal == abs(start[1] - end[1])
        vertical == abs(start[2] - end[2])
        piece == get_boardpiece(self, start)
    IN  IF ~piece.ok THEN piece
        ELSE IF piece.val = None THEN Exc("AttributeError")
        ELSE IF Pawn = piece.val.material THEN Ok(FALSE)
        ELSE IF King = piece.val.material THEN Ok(FALSE)
        ELSE IF horizontal = vertical THEN check_diagonal(self, start, end)
        ELSE IF horizontal # 0 THEN check_horizontal(self, start, end)
        ELSE check_vertical(self, start, end)

is_legal_move(self, move) ==
    LET start == to_coordinate(SubSeq(move, 1, 2))
        end == to_coordinate(SubSeq(move, 3, Len(move)))
    IN  IF outside_board(start, end) THEN Ok(FALSE)
        ELSE LET occupied == spot_occupied(self, start, end)
             IN  IF ~occupied.ok THEN occupied
                 ELSE IF occupied.val THEN Ok(FALSE)
                 ELSE LET restricted == piece_restriction(self, start, end)
                      IN  IF ~restricted.ok THEN restricted
                          ELSE IF restricted.val THEN Ok(FALSE)
                          ELSE LET obstructed == path_obstructed(self, start, end)
                               IN  IF ~obstructed.ok THEN obstructed
                                   ELSE IF obstructed.val THEN Ok(FALSE)
                                   ELSE Ok(TRUE)

----------------------------------------------------------------------------
(* Move generation *)

\* all_moves with the two loops exchanged: for j in range(8): for i in range(8)
all_moves_rank_major(coordinates) ==
    [k \in 1 .. (BoardSize * BoardSize) |->
        to_move(coordinates, <<(k - 1) % BoardSize, (k - 1) \div BoardSize>>)]

\* the 64 candidate moves of a square, for i in range(8): for j in range(8)
all_moves(coordinates) ==
    [k \in 1 .. (BoardSize * BoardSize) |->
        to_move(coordinates, <<(k - 1) \div BoardSize, (k - 1) % BoardSize>>)]

\* the squares scanned by "for x in range(8): for y in range(8)", in order
scan_order == [k \in 1 .. (BoardSize * BoardSize) |->
                  <<(k - 1) \div BoardSize, (k - 1) % BoardSize>>]

\* the loops of legal_moves, unrolled: the candidate moves of the squares that
\* hold a piece of the side to move, in the order is_legal_move is called on
\* them; the result is the candidates it accepts, or the first exception
legal_moves(self) ==
    LET own == SelectSeq(scan_order, LAMBDA c :
                   LET piece == get_boardpiece(self, c).val
                   IN  piece # None /\ piece.side = self.turn)
        n == BoardSize * BoardSize
        candidates == [k \in 1 .. (n * Len(own)) |->
                          all_moves(own[((k - 1) \div n) + 1])[((k - 1) % n) + 1]]
        calls == [k \in 1 .. Len(candidates) |->
                     [move |-> candidates[k], legal |-> is_legal_move(self, candidates[k])]]
        raised == SelectSeq(calls, LAMBDA c : ~c.legal.ok)
        kept == SelectSeq(calls, LAMBDA c : c.legal.ok /\ c.legal.val)
    IN  IF Len(raised) > 0
        THEN raised[1].legal
        ELSE Ok([i \in 1 .. Len(kept) |-> kept[i].move])

----------------------------------------------------------------------------
(* Objects: board_matrix is a list of row lists.  The heap is the sequence *)
(* of all row lists allocated so far, a row's reference is its index, and  *)
(* a ChessBoard object holds the references of its eight rows.             *)

\* the value of a ChessBoard object
Deref(h, obj) ==
    ChessBoard(obj.turn, [y \in Idx |-> h[obj.board_matrix[y]]])

\* a heap holding one ChessBoard with the given value
Alloc(cb) ==
    [heap |-> [r \in 1 .. BoardSize |-> cb.board_matrix[r - 1]],
     obj |-> ChessBoard(cb.turn, [y \in Idx |-> y + 1])]

\* duplicate_matrix without the copy: new_matrix = self.board_matrix
duplicate_matrix_alias(h, board_matrix) ==
    [heap |-> h, matrix |-> board_matrix]

\* new_matrix = [row[:] for row in self.board_matrix]
duplicate_matrix(h, board_matrix) ==
    [heap |-> h \o [r \in 1 .. BoardSize |-> h[board_matrix[r - 1]]],
     matrix |-> [y \in Idx |-> Len(h) + y + 1]]

set_boardpiece(h, obj, position, piece) ==
    LET x == position[1]
        y == position[2]
    IN  IF InRange(y) /\ InRange(x)
        THEN Ok([h EXCEPT ![obj.board_matrix[y % BoardSize]][x % BoardSize] = piece])
        ELSE Exc("IndexError")

\* make_move on objects: the heap after the call and the returned ChessBoard
make_move_obj(h, self, move_str) ==
    LET start_pos == to_coordinate(SubSeq(move_str, 1, 2))
        end_pos == to_coordinate(SubSeq(move_str, 3, 4))
        turn == IF self.turn = White THEN Black ELSE White
        dup == duplicate_matrix(h, self.board_matrix)
        new_board == ChessBoard(turn, dup.matrix)
        piece == get_boardpiece(Deref(dup.heap, new_board), start_pos)
    IN  IF ~piece.ok THEN piece
        ELSE LET h1 == set_boardpiece(dup.heap, new_board, end_pos, piece.val)
             IN  IF ~h1.ok THEN h1
                 ELSE LET h2 == set_boardpiece(h1.val, new_board, start_pos, None)
                      IN  IF ~h2.ok THEN h2
                          ELSE Ok([heap |-> h2.val, ret |-> new_board])

\* make_move on values: the value of the returned ChessBoard
make_move(self, move_str) ==
    LET a == Alloc(self)
        r == make_move_obj(a.heap, a.obj, move_str)
    IN  IF ~r.ok THEN r ELSE Ok(Deref(r.val.heap, r.val.ret))

----------------------------------------------------------------------------
(* ChessComputer: evaluation *)

get_score(material) ==
    IF material = Pawn THEN 1
    ELSE IF material = Rook THEN 10
    ELSE IF material = Bishop THEN 10
    ELSE IF material = Queen THEN 50
    ELSE 150

\* "for i in range(8): for j in range(8): ... score += get_score(piece.material)":
\* the sum over the squares, taken material by material
count_pieces(chessboard_, side) ==
    LET held(material) == Cardinality({c \in Idx \X Idx :
            get_boardpiece(chessboard_, c).val = Piece(side, material)})
    IN  get_score(Pawn) * held(Pawn) + get_score(Rook) * held(Rook)
        + get_score(Bishop) * held(Bishop) + get_score(Queen) * held(Queen)
        + get_score(King) * held(King)

get_weight(depth_left) == depth_left

evaluate_board(chessboard_, depth_left) ==
    LET white_score == count_pieces(chessboard_, White)
        black_score == count_pieces(chessboard_, Black)
        weight == get_weight(depth_left)
    IN  weight * (white_score - black_score)

\* the board after a move of legal_moves (its squares are on the board, so
\* make_move does not raise).  Where the search writes
\* "new_board = ChessBoard.make_move(chessboard, move)", new_board is bound
\* to this board as the one element of {child(chessboard_, move)}, so that
\* the move is made once.
child(chessboard_, move) == make_move(chessboard_, move).val

scores(chessboard_, possible_moves, depth_) ==
    [k \in 1 .. Len(possible_moves) |->
        CHOOSE score \in {evaluate_board(new_board, depth_) :
                             new_board \in {child(chessboard_, possible_moves[k])}} : TRUE]

\* Python's min(list)
min(s) ==
    IF Len(s) = 0 THEN Exc("ValueError")
    ELSE Ok(CHOOSE v \in {s[k] : k \in 1 .. Len(s)} : \A k \in 1 .. Len(s) : v <= s[k])

Inf == 9999999

----------------------------------------------------------------------------
(* ChessComputer: minimax.  Each function is written in steps that take    *)
(* the value of a local variable of the code as an argument:               *)
(*   f(chessboard, depth)        up to "possible_moves = legal_moves(..)"  *)
(*   f_moves(.., possible_moves) the rest of the body                      *)
(*   f_loop(.., k, best)         the for loop at move number k             *)
(*   f_step(.., k, best, value)  the loop body once value is computed      *)

RECURSIVE min_value(_, _)
RECURSIVE max_value(_, _)
RECURSIVE min_value_loop(_, _, _, _, _)
RECURSIVE max_value_loop(_, _, _, _, _)

min_value_step(chessboard_, possible_moves, k, depth_, best, value) ==
    IF ~value.ok THEN value
    ELSE min_value_loop(chessboard_, possible_moves, k + 1, depth_,
                        IF value.val < best THEN value.val ELSE best)

min_value_loop(chessboard_, possible_moves, k, depth_, best) ==
    IF k > Len(possible_moves) THEN Ok(best)
    ELSE min_value_step(chessboard_, possible_moves, k, depth_, best,
             CHOOSE value \in {max_value(new_board, depth_) :
                 new_board \in {child(chessboard_, possible_moves[k])}} : TRUE)

min_value_moves(chessboard_, depth_, possible_moves) ==
    IF ~possible_moves.ok THEN possible_moves
    ELSE IF depth_ = 1
    THEN min(scores(chessboard_, possible_moves.val, depth_))
    ELSE min_value_loop(chessboard_, possible_moves.val, 1, depth_, Inf)

min_value(chessboard_, depth0) ==
    IF is_king_dead(chessboard_, chessboard_.turn)
    THEN Ok(evaluate_board(chessboard_, depth0 - 1))
    ELSE min_value_moves(chessboard_, depth0 - 1, legal_moves(chessboard_))

max_value_step(chessboard_, possible_moves, k, depth_, best, value) ==
    IF ~value.ok THEN value
    ELSE max_value_loop(chessboard_, possible_moves, k + 1, depth_,
                        IF value.val > best THEN value.val ELSE best)

max_value_loop(chessboard_, possible_moves, k, depth_, best) ==
    IF k > Len(possible_moves) THEN Ok(best)
    ELSE max_value_step(chessboard_, possible_moves, k, depth_, best,
             CHOOSE value \in {min_value(new_board, depth_) :
                 new_board \in {child(chessboard_, possible_moves[k])}} : TRUE)

max_value_moves(chessboard_, depth_, possible_moves) ==
    IF ~possible_moves.ok THEN possible_moves
    ELSE IF depth_ = 1
    THEN min(scores(chessboard_, possible_moves.val, depth_))
    ELSE max_value_loop(chessboard_, possible_moves.val, 1, depth_, -Inf)

max_value(chessboard_, depth0) ==
    IF is_king_dead(chessboard_, chessboard_.turn)
    THEN Ok(evaluate_board(chessboard_, depth0 - 1))
    ELSE max_value_moves(chessboard_, depth0 - 1, legal_moves(chessboard_))

\* the for loop of minimax; the result is <<best_score, best_move>>
RECURSIVE minimax_loop(_, _, _, _, _, _)

minimax_step(chessboard_, possible_moves, k, depth_, best_score, best_move, score) ==
    IF ~score.ok THEN score
    ELSE IF (IF chessboard_.turn = Black THEN score.val < best_score
                                         ELSE score.val > best_score)
    THEN minimax_loop(chessboard_, possible_moves, k + 1, depth_, score.val,
                      possible_moves[k])
    ELSE minimax_loop(chessboard_, possible_moves, k + 1, depth_, best_score, best_move)

minimax_loop(chessboard_, possible_moves, k, depth_, best_score, best_move) ==
    IF k > Len(possible_moves) THEN Ok(<<best_score, best_move>>)
    ELSE minimax_step(chessboard_, possible_moves, k, depth_, best_score, best_move,
             CHOOSE score \in {IF chessboard_.turn = Black
                               THEN max_value(new_board, depth_)
                               ELSE min_value(new_board, depth_) :
                 new_board \in {child(chessboard_, possible_moves[k])}} : TRUE)

minimax_moves(chessboard_, depth_, possible_moves) ==
    IF ~possible_moves.ok THEN possible_moves
    ELSE IF Len(possible_moves.val) = 0 THEN Exc("IndexError")
    ELSE minimax_loop(chessboard_, possible_moves.val, 1, depth_,
                      IF chessboard_.turn = Black THEN Inf ELSE -Inf,
                      possible_moves.val[1])

minimax(chessboard_, depth0) ==
    minimax_moves(chessboard_, depth0 + 1, legal_moves(chessboard_))

----------------------------------------------------------------------------
(* ChessComputer: alpha-beta, in the same steps *)

RECURSIVE min_value_ab(_, _, _, _)
RECURSIVE max_value_ab(_, _, _, _)
RECURSIVE min_value_ab_loop(_, _, _, _, _, _, _)
RECURSIVE max_value_ab_loop(_, _, _, _, _, _, _)

min_value_ab_step(chessboard_, possible_moves, k, depth_, alpha, beta, best, value) ==
    IF ~value.ok THEN value
    ELSE IF value.val <= alpha THEN value
    ELSE min_value_ab_loop(chessboard_, possible_moves, k + 1, depth_, alpha,
                           IF value.val < beta THEN value.val ELSE beta,
                           IF value.val < best THEN value.val ELSE best)

min_value_ab_loop(chessboard_, possible_moves, k, depth_, alpha, beta, best) ==
    IF k > Len(possible_moves) THEN Ok(best)
    ELSE min_value_ab_step(chessboard_, possible_moves, k, depth_, alpha, beta, best,
             CHOOSE value \in {max_value_ab(new_board, depth_, alpha, beta) :
                 new_board \in {child(chessboard_, possible_moves[k])}} : TRUE)

min_value_ab_moves(chessboard_, depth_, alpha, beta, possible_moves) ==
    IF ~possible_moves.ok THEN possible_moves
    ELSE IF depth_ = 1
    THEN min(scores(chessboard_, possible_moves.val, depth_))
    ELSE min_value_ab_loop(chessboard_, possible_moves.val, 1, depth_, alpha, beta, Inf)

min_value_ab(chessboard_, depth0, alpha, beta) ==
    IF is_king_dead(chessboard_, chessboard_.turn)
    THEN Ok(evaluate_board(chessboard_, depth0 - 1))
    ELSE min_value_ab_moves(chessboard_, depth0 - 1, alpha, beta,
                            legal_moves(chessboard_))

max_value_ab_step(chessboard_, possible_moves, k, depth_, alpha, beta, best, value) ==
    IF ~value.ok THEN value
    ELSE IF value.val >= beta THEN value
    ELSE max_value_ab_loop(chessboard_, possible_moves, k + 1, depth_,
                           IF value.val > alpha THEN value.val ELSE alpha, beta,
                           IF value.val > best THEN value.val ELSE best)

max_value_ab_loop(chessboard_, possible_moves, k, depth_, alpha, beta, best) ==
    IF k > Len(possible_moves) THEN Ok(best)
    ELSE max_value_ab_step(chessboard_, possible_moves, k, depth_, alpha, beta, best,
             CHOOSE value \in {min_value_ab(new_board, depth_, alpha, beta) :
                 new_board \in {child(chessboard_, possible_moves[k])}} : TRUE)

max_value_ab_moves(chessboard_, depth_, alpha, beta, possible_moves) ==
    IF ~possible_moves.ok THEN possible_moves
    ELSE IF depth_ = 1
    THEN min(scores(chessboard_, possible_moves.val, depth_))
    ELSE max_value_ab_loop(chessboard_, possible_moves.val, 1, depth_, alpha, beta, -Inf)

max_value_ab(chessboard_, depth0, alpha, beta) ==
    IF is_king_dead(chessboard_, chessboard_.turn)
    THEN Ok(evaluate_board(chessboard_, depth0 - 1))
    ELSE max_value_ab_moves(chessboard_, depth0 - 1, alpha, beta,
                            legal_moves(chessboard_))

RECURSIVE alphabeta_loop(_, _, _, _, _, _, _, _)

alphabeta_step(chessboard_, possible_moves, k, depth_, alpha, beta, best_score, best_move, score) ==
    IF ~score.ok THEN score
    ELSE IF (IF chessboard_.turn = Black THEN score.val < best_score
                                         ELSE score.val > best_score)
    THEN alphabeta_loop(chessboard_, possible_moves, k + 1, depth_, alpha, beta,
                        score.val, possible_moves[k])
    ELSE alphabeta_loop(chessboard_, possible_moves, k + 1, depth_, alpha, beta,
                        best_score, best_move)

alphabeta_loop(chessboard_, possible_moves, k, depth_, alpha, beta, best_score, best_move) ==
    IF k > Len(possible_moves) THEN Ok(<<best_score, best_move>>)
    ELSE alphabeta_step(chessboard_, possible_moves, k, depth_, alpha, beta,
             best_score, best_move,
             CHOOSE score \in {IF chessboard_.turn = Black
                               THEN max_value_ab(new_board, depth_, alpha, beta)
                               ELSE min_value_ab(new_board, depth_, alpha, beta) :
                 new_board \in {child(chessboard_, possible_moves[k])}} : TRUE)

alphabeta_moves(chessboard_, depth_, alpha, beta, possible_moves) ==
    IF ~possible_moves.ok THEN possible_moves
    ELSE IF Len(possible_moves.val) = 0 THEN Exc("IndexError")
    ELSE alphabeta_loop(chessboard_, possible_moves.val, 1, depth_, alpha, beta,
                        IF chessboard_.turn = Black THEN Inf ELSE -Inf,
                        possible_moves.val[1])

\* the alpha and beta passed in are overwritten before the loop
alphabeta(chessboard_, depth0, alpha0, beta0) ==
    alphabeta_moves(chessboard_, depth0 + 1, -Inf, Inf, legal_moves(chessboard_))

computer_move(chessboard_, depth0, alphabeta_) ==
    IF alphabeta_
    THEN LET inf == 99999999
             min_inf == -inf
         IN  alphabeta(chessboard_, depth0, min_inf, inf)
    ELSE minimax(chessboard_, depth0)

----------------------------------------------------------------------------
(* Positions the program is started on.  A placement is a set of           *)
(* <<x, y, piece>>; load_from_input fills board_matrix[y][x] from the      *)
(* board file and sets the turn from its last line.                        *)

W(material) == Piece(White, material)

B(material) == Piece(Black, material)

load_from_input(placement, turn) ==
    ChessBoard(turn,
        [y \in Idx |-> [x \in Idx |->
            IF \E p \in placement : p[1] = x /\ p[2] = y
            THEN (CHOOSE p \in placement : p[1] = x /\ p[2] = y)[3]
            ELSE None]])

\* King and Rook against King: Ra1 Ke1 Pa4 / ke8 ph5
RookBoard == {<<0, 7, W(Rook)>>, <<4, 7, W(King)>>, <<0, 4, W(Pawn)>>,
              <<4, 0, B(King)>>, <<7, 3, B(Pawn)>>}

\* Pawns facing each other: Pe4 Pd2 Kh1 / pe5 pd5 ka8
PawnBoard == {<<4, 4, W(Pawn)>>, <<3, 6, W(Pawn)>>, <<7, 7, W(King)>>,
              <<4, 3, B(Pawn)>>, <<3, 3, B(Pawn)>>, <<0, 0, B(King)>>}

\* Bishop and Queen in the middle: Bd4 Qe2 Kg1 Pf6 / kb8 pb6 pe5 pf2
SliderBoard == {<<3, 4, W(Bishop)>>, <<4, 6, W(Queen)>>, <<6, 7, W(King)>>,
                <<5, 2, W(Pawn)>>, <<1, 0, B(King)>>, <<1, 2, B(Pawn)>>,
                <<4, 3, B(Pawn)>>, <<5, 6, B(Pawn)>>}

\* Hemmed-in pieces: Ka3 Qa2 Bb3 Pa4 Pb4 Pd2 / kh7 bg7 re7 pd7 pe6 pg6 ph6
HemmedBoard == {<<0, 5, W(King)>>, <<0, 6, W(Queen)>>, <<1, 5, W(Bishop)>>,
                <<0, 4, W(Pawn)>>, <<1, 4, W(Pawn)>>, <<3, 6, W(Pawn)>>,
                <<7, 1, B(King)>>, <<6, 1, B(Bishop)>>, <<4, 1, B(Rook)>>,
                <<3, 1, B(Pawn)>>, <<4, 2, B(Pawn)>>, <<6, 2, B(Pawn)>>,
                <<7, 2, B(Pawn)>>}

\* Kings within reach of a Pawn: Ka1 Pd4 / kd5 pb2
DuelBoard == {<<0, 7, W(King)>>, <<3, 4, W(Pawn)>>,
              <<3, 3, B(King)>>, <<1, 6, B(Pawn)>>}

\* A Black King walled in on a1 by its own Pawns a2 b2 b1, which cannot move
Walled == {<<0, 7, B(King)>>, <<0, 6, B(Pawn)>>, <<1, 6, B(Pawn)>>, <<1, 7, B(Pawn)>>}

\* ... with Pf2 Kg1 / ph3 ph2
WalledA == Walled \cup {<<5, 6, W(Pawn)>>, <<6, 7, W(King)>>,
                        <<7, 5, B(Pawn)>>, <<7, 6, B(Pawn)>>}

\* ... with Pf2 Kg1, Black has no move
WalledB == Walled \cup {<<5, 6, W(Pawn)>>, <<6, 7, W(King)>>}

\* ... with Pf2 Kg1 / pg3
WalledC == Walled \cup {<<5, 6, W(Pawn)>>, <<6, 7, W(King)>>, <<6, 5, B(Pawn)>>}

\* ... with Pe3 Kg1 / pf4
WalledD == Walled \cup {<<4, 5, W(Pawn)>>, <<6, 7, W(King)>>, <<5, 4, B(Pawn)>>}

\* ... with Pf2 Kh1 / pf3 pg3
WalledE == Walled \cup {<<5, 6, W(Pawn)>>, <<7, 7, W(King)>>,
                        <<5, 5, B(Pawn)>>, <<6, 5, B(Pawn)>>}

\* the positions a search is started on
SearchBoards == {load_from_input(p, t) :
                    p \in {WalledA, WalledB, WalledC, WalledD, WalledE}, t \in Side}

\* the positions a game is started on
InitBoards == {load_from_input(PawnBoard, White), load_from_input(PawnBoard, Black),
               load_from_input(HemmedBoard, White),
               load_from_input(DuelBoard, White), load_from_input(DuelBoard, Black)}

\* the positions the move rules are called on
RuleBoards == {load_from_input(p, t) : p \in {RookBoard, PawnBoard, SliderBoard},
                                        t \in Side}

----------------------------------------------------------------------------
(* Inputs *)

\* how many files beyond a..h an input square may name on either side
FileMargin == 0

\* the characters of an input move: a file letter and a digit
FileChars == (OrdA - FileMargin) .. (OrdA + BoardSize - 1 + FileMargin)

DigitChars == Ord0 .. (Ord0 + 9)

MoveInputs == {<<f1, d1, f2, d2>> : f1 \in FileChars, d1 \in DigitChars,
                                    f2 \in FileChars, d2 \in DigitChars}

\* the squares of the board
Squares == Idx \X Idx

\* coordinates on and around the board
Coords == {to_coordinate(<<f, d>>) : f \in FileChars, d \in DigitChars}

\* how many positions a game holds one after the other
MaxBoards == 3

\* the largest max_depth a search is called with
MaxDepth == 3

Depths == 1 .. MaxDepth

\* how many calls of the search are followed one inside the other
MaxCalls == 6

----------------------------------------------------------------------------
(* A round of make_human_move: the legal moves of the position held are   *)
(* printed, then a move that is_legal_move accepts is read and the         *)
(* position held is replaced by make_move of it.                           *)

NoCall == [op |-> "none"]

\* the game goes on: make_human_move has not called sys.exit
Playing == "playing"

\* the checks of make_human_move after the move: what it prints before
\* sys.exit(0), or Playing when it returns to the loop of main
game_end(chessboard_) ==
    IF check_kings_only(chessboard_) THEN "It's a stale mate!"
    ELSE IF is_king_dead(chessboard_, Black) THEN "White wins!"
    ELSE IF is_king_dead(chessboard_, White) THEN "Black wins!"
    ELSE Playing

NoResult == [minimax |-> NoCall, alphabeta |-> NoCall]

Held(cb) ==
    LET a == Alloc(cb)
    IN  /\ heap = a.heap
        /\ chessboard = a.obj
        /\ boards = <<[obj |-> a.obj, value |-> cb]>>
        /\ call = NoCall
        /\ result = NoResult
        /\ outcome = Playing

Init ==
    /\ \E cb \in InitBoards : Held(cb)
    /\ depth = 4    \* "self.depth = 4"

\* "print(self.chessboard.legal_moves())"
CallLegalMoves ==
    /\ outcome = Playing
    /\ call.op # "legal_moves"
    /\ call' = [op |-> "legal_moves", res |-> legal_moves(Deref(heap, chessboard))]
    /\ UNCHANGED <<heap, chessboard, boards, depth, result, outcome>>

\* "elif self.chessboard.is_legal_move(move): break" and then
\* "self.chessboard = self.chessboard.make_move(move)", for any move typed,
\* and then the checks that end the game
MakeMove ==
    /\ outcome = Playing
    /\ call.op = "legal_moves"
    /\ Len(boards) < MaxBoards
    /\ \E move \in MoveInputs :
          /\ is_legal_move(Deref(heap, chessboard), move) = Ok(TRUE)
          /\ LET r == make_move_obj(heap, chessboard, move)
             IN  /\ r.ok
                 /\ heap' = r.val.heap
                 /\ chessboard' = r.val.ret
                 /\ boards' = Append(boards, [obj |-> r.val.ret,
                                              value |-> Deref(r.val.heap, r.val.ret)])
                 /\ call' = [op |-> "make_move", move |-> move, self |-> chessboard,
                             before |-> Deref(heap, chessboard)]
                 /\ outcome' = game_end(Deref(r.val.heap, r.val.ret))
    /\ UNCHANGED <<depth, result>>

\* "if move == 'q': print('Exiting program...'); sys.exit(0)"
Quit ==
    /\ outcome = Playing
    /\ call.op = "legal_moves"
    /\ outcome' = "Exiting program..."
    /\ UNCHANGED <<heap, chessboard, boards, call, depth, result>>

Next ==
    \/ CallLegalMoves
    \/ Quit
    \/ MakeMove

Spec == Init /\ [][Next]_vars

----------------------------------------------------------------------------
(* The move rules: one call on a position, with any input squares *)

InitRules ==
    /\ \E cb \in RuleBoards : Held(cb)
    /\ depth = 4    \* "self.depth = 4"

CallIsLegalMove ==
    /\ call = NoCall
    /\ \E move \in MoveInputs :
          call' = [op |-> "is_legal_move", move |-> move,
                   res |-> is_legal_move(Deref(heap, chessboard), move)]
    /\ UNCHANGED <<heap, chessboard, boards, depth, result, outcome>>

CallOutsideBoard ==
    /\ call = NoCall
    /\ \E start \in Coords, end \in Coords :
          call' = [op |-> "outside_board", start |-> start, end |-> end,
                   res |-> outside_board(start, end)]
    /\ UNCHANGED <<heap, chessboard, boards, depth, result, outcome>>

CallPieceRestriction ==
    /\ call = NoCall
    /\ \E start \in Squares, end \in Squares :
          call' = [op |-> "piece_restriction", start |-> start, end |-> end,
                   res |-> piece_restriction(Deref(heap, chessboard), start, end)]
    /\ UNCHANGED <<heap, chessboard, boards, depth, result, outcome>>

CallPathObstructed ==
    /\ call = NoCall
    /\ \E start \in Squares, end \in Squares :
          call' = [op |-> "path_obstructed", start |-> start, end |-> end,
                   res |-> path_obstructed(Deref(heap, chessboard), start, end)]
    /\ UNCHANGED <<heap, chessboard, boards, depth, result, outcome>>

NextRules ==
    \/ CallIsLegalMove
    \/ CallOutsideBoard
    \/ CallPieceRestriction
    \/ CallPathObstructed

SpecRules == InitRules /\ [][NextRules]_vars

----------------------------------------------------------------------------
(* Notions the properties are stated with *)

\* the position held
Position == Deref(heap, chessboard)

OnBoard(c) == c[1] \in Idx /\ c[2] \in Idx

\* the square of the matrix a coordinate is read from and written to
Cell(c) == <<c[1] % BoardSize, c[2] % BoardSize>>

At(cb, c) == cb.board_matrix[c[2]][c[1]]

From(move) == to_coordinate(SubSeq(move, 1, 2))

To(move) == to_coordinate(SubSeq(move, 3, 4))

OwnPiece(cb, c) == At(cb, c) # None /\ At(cb, c).side = cb.turn

Opposite(side) == IF side = White THEN Black ELSE White

\* (origin file, origin row, destination file, destination row), compared
\* lexicographically
Before(m1, m2) ==
    LET k1 == From(m1) \o To(m1)
        k2 == From(m2) \o To(m2)
    IN  \E i \in 1 .. 4 : k1[i] < k2[i] /\ \A j \in 1 .. (i - 1) : k1[j] = k2[j]

----------------------------------------------------------------------------
(* Properties of the game *)

\* C4: legal_moves returns exactly the moves of the board whose origin holds a
\* piece of the side to move and that is_legal_move accepts, each once, ordered
\* by origin file, origin row, destination file, destination row
LegalMovesExact ==
    call.op = "legal_moves" =>
        /\ call.res.ok
        /\ \A k \in 1 .. Len(call.res.val) :
              LET m == call.res.val[k]
              IN  /\ OnBoard(From(m)) /\ OnBoard(To(m))
                  /\ OwnPiece(Position, From(m))
                  /\ is_legal_move(Position, m) = Ok(TRUE)
        /\ \A from \in Squares : OwnPiece(Position, from) =>
              \A to \in Squares :
                  is_legal_move(Position, to_move(from, to)) = Ok(TRUE)
                      => \E k \in 1 .. Len(call.res.val) :
                             call.res.val[k] = to_move(from, to)
        /\ \A j, k \in 1 .. Len(call.res.val) :
              j < k => Before(call.res.val[j], call.res.val[k])

\* legal_moves has listed the moves of a position reached by a move, and one
\* piece has moves to several files and several rows
LegalMovesListed ==
    /\ call.op = "legal_moves"
    /\ Len(boards) > 1
    /\ call.res.ok
    /\ \E j, k \in 1 .. Len(call.res.val) :
          LET m1 == call.res.val[j]
              m2 == call.res.val[k]
          IN  /\ From(m1) = From(m2)
              /\ To(m1)[1] < To(m2)[1]
              /\ To(m1)[2] > To(m2)[2]

\* C10: make_move leaves the receiver (and every position held before it) as it
\* was, and returns a distinct position with the turn flipped, the piece of the
\* from-square on the to-square, the from-square empty and every other square
\* as in the receiver
MakeMoveFrame ==
    /\ \A i \in 1 .. Len(boards) : Deref(heap, boards[i].obj) = boards[i].value
    /\ call.op = "make_move" =>
          LET old == call.before
              new == Position
              from == Cell(From(call.move))
              to == Cell(To(call.move))
          IN  /\ Deref(heap, call.self) = old
              /\ chessboard # call.self
              /\ \A y1, y2 \in Idx :
                    chessboard.board_matrix[y1] # call.self.board_matrix[y2]
              /\ new.turn = Opposite(old.turn)
              /\ At(new, to) = At(old, from)
              /\ At(new, from) = None
              /\ \A c \in Squares : c # from /\ c # to => At(new, c) = At(old, c)

\* a second move was made on the position returned by a first one, and it
\* captured a piece
SecondMoveMade ==
    /\ call.op = "make_move"
    /\ Len(boards) >= 3
    /\ At(call.before, Cell(To(call.move))) # None

----------------------------------------------------------------------------
(* Properties of the move rules *)

\* the squares strictly between two squares of a rank, a file or a diagonal
Sign(n) == IF n < 0 THEN -1 ELSE IF n > 0 THEN 1 ELSE 0

OnLine(start, end) ==
    LET dx == end[1] - start[1]
        dy == end[2] - start[2]
    IN  start # end /\ (dx = 0 \/ dy = 0 \/ abs(dx) = abs(dy))

Between(start, end) ==
    LET dx == end[1] - start[1]
        dy == end[2] - start[2]
        n == IF abs(dx) > abs(dy) THEN abs(dx) ELSE abs(dy)
    IN  {<<start[1] + i * Sign(dx), start[2] + i * Sign(dy)>> : i \in 1 .. (n - 1)}

\* C5: outside_board returns True iff a coordinate of start or end is outside
\* 0..7 or start = end, and is_legal_move returns False for a move with a
\* coordinate outside 0..7
OnBoardCheck ==
    /\ call.op = "outside_board" =>
          (call.res <=> (~OnBoard(call.start) \/ ~OnBoard(call.end)
                         \/ call.start = call.end))
    /\ call.op = "is_legal_move" /\ (~OnBoard(From(call.move)) \/ ~OnBoard(To(call.move)))
          => call.res = Ok(FALSE)

\* C6: is_legal_move returns False for a move between two different squares of
\* the board whose origin is empty or holds a piece of the side not to move
ForeignOriginRejected ==
    call.op = "is_legal_move"
    /\ OnBoard(From(call.move)) /\ OnBoard(To(call.move))
    /\ From(call.move) # To(call.move)
    /\ ~OwnPiece(Position, From(call.move))
        => call.res = Ok(FALSE)

\* C7: for a Bishop of the side to move piece_restriction returns False iff
\* |dx| = |dy| and both are nonzero
BishopShape ==
    call.op = "piece_restriction"
    /\ At(Position, call.start) = Piece(Position.turn, Bishop)
        => LET dx == call.end[1] - call.start[1]
               dy == call.end[2] - call.start[2]
           IN  /\ call.res.ok
               /\ call.res.val = FALSE <=> (abs(dx) = abs(dy) /\ dx # 0)

\* C8: is_legal_move accepts the move of a Pawn of the side to move iff it goes
\* one row forward and either stays on its file onto an empty square or
\* changes file by one onto a square held by the other side
PawnRule ==
    call.op = "is_legal_move"
    /\ OnBoard(From(call.move)) /\ OnBoard(To(call.move))
    /\ At(Position, From(call.move)) = Piece(Position.turn, Pawn)
        => LET from == From(call.move)
               to == To(call.move)
               forward == IF Position.turn = White THEN -1 ELSE 1
               target == At(Position, to)
           IN  /\ call.res.ok
               /\ call.res.val <=>
                     /\ to[2] - from[2] = forward
                     /\ \/ to[1] = from[1] /\ target = None
                        \/ /\ abs(to[1] - from[1]) = 1
                           /\ target # None
                           /\ target.side = Opposite(Position.turn)

\* C9: path_obstructed returns False for a Pawn and a King, and for a Rook,
\* Bishop or Queen moved along a rank, a file or a diagonal it returns True iff
\* a square strictly between start and end is occupied
PathObstructedOnLine ==
    call.op = "path_obstructed" /\ At(Position, call.start) # None =>
        LET material == At(Position, call.start).material
        IN  /\ material \in {Pawn, King} => call.res = Ok(FALSE)
            /\ material \in {Rook, Bishop, Queen} /\ OnLine(call.start, call.end)
                  => call.res = Ok(\E c \in Between(call.start, call.end) :
                                       At(Position, c) # None)

----------------------------------------------------------------------------
(* The search, called on a position with a max_depth, with and without     *)
(* alpha-beta                                                              *)

InitSearch ==
    /\ \E cb \in SearchBoards : Held(cb)
    /\ depth \in Depths

CallComputerMove(alphabeta_) ==
    LET key == IF alphabeta_ THEN "alphabeta" ELSE "minimax"
    IN  /\ result[key] = NoCall
        /\ result' = [result EXCEPT ![key] =
                         [op |-> "computer_move",
                          res |-> computer_move(Position, depth, alphabeta_)]]
        /\ UNCHANGED <<heap, chessboard, boards, call, depth, outcome>>

NextSearch == \E alphabeta_ \in BOOLEAN : CallComputerMove(alphabeta_)

SpecSearch == InitSearch /\ [][NextSearch]_vars

----------------------------------------------------------------------------
(* Properties of the search *)

Called(key) == result[key] # NoCall

\* the largest and the smallest of a sequence of numbers, the empty maximum
\* and minimum being the values the loops of the search start from
Largest(s) == IF Len(s) = 0 THEN -Inf
              ELSE CHOOSE v \in {s[k] : k \in 1 .. Len(s)} :
                       \A k \in 1 .. Len(s) : v >= s[k]

Smallest(s) == IF Len(s) = 0 THEN Inf
               ELSE CHOOSE v \in {s[k] : k \in 1 .. Len(s)} :
                        \A k \in 1 .. Len(s) : v <= s[k]

\* the minimax value of a node of the tree the search explores: a node whose
\* side to move has no King is a leaf, the children of a node at depth 1 are
\* leaves, every other node has the maximum of its children's values when
\* White is to move and the minimum when Black is
RECURSIVE TreeValue(_, _)
TreeValue(cb, depth0) ==
    LET depth_ == depth0 - 1
        moves == legal_moves(cb).val
        values == [k \in 1 .. Len(moves) |->
                      CHOOSE v \in {IF depth_ = 1
                                    THEN evaluate_board(next, depth_)
                                    ELSE TreeValue(next, depth_) :
                                        next \in {child(cb, moves[k])}} : TRUE]
    IN  IF is_king_dead(cb, cb.turn) THEN evaluate_board(cb, depth_)
        ELSE IF cb.turn = White THEN Largest(values)
        ELSE Smallest(values)

\* C1: computer_move with and without alpha-beta have the same outcome: both
\* fail, or both return the same score and move
SameOutcome ==
    Called("minimax") /\ Called("alphabeta") =>
        LET plain == result["minimax"].res
            pruned == result["alphabeta"].res
        IN  /\ plain.ok = pruned.ok
            /\ plain.ok => plain.val = pruned.val

\* C2: on a position with both Kings and no legal move, minimax and alphabeta
\* fail with NoLegalMoves
NoLegalMovesReported ==
    \A key \in {"minimax", "alphabeta"} :
        (/\ Called(key)
         /\ legal_moves(Position) = Ok(<<>>)
         /\ ~is_king_dead(Position, White)
         /\ ~is_king_dead(Position, Black))
            => result[key].res = Exc("NoLegalMoves")

\* C3: the score minimax returns is the minimax value of the explored tree and
\* the move it returns is one whose subtree has that value
MinimaxValue ==
    Called("minimax") /\ result["minimax"].res.ok =>
        LET score == result["minimax"].res.val[1]
            move == result["minimax"].res.val[2]
            moves == legal_moves(Position).val
            values == [k \in 1 .. Len(moves) |->
                          CHOOSE v \in {TreeValue(next, depth + 1) :
                                           next \in {child(Position, moves[k])}} : TRUE]
        IN  /\ score = IF Position.turn = White THEN Largest(values)
                       ELSE Smallest(values)
            /\ \E k \in 1 .. Len(moves) : moves[k] = move /\ values[k] = score

----------------------------------------------------------------------------
(* The positions the search scores *)

\* the set of a sequence's elements
Range(s) == {s[k] : k \in 1 .. Len(s)}

\* a position scored by evaluate_board: the number of moves made from the
\* root to reach it, and whether both Kings are on it
Scored(chessboard_, ply) ==
    [ply |-> ply,
     kings |-> ~is_king_dead(chessboard_, White) /\ ~is_king_dead(chessboard_, Black)]

\* the positions min_value and max_value pass to evaluate_board, directly or
\* through scores, when called on a position ply moves from the root (the two
\* make the same calls) and no call raises
RECURSIVE value_scored(_, _, _)
value_scored(chessboard_, depth0, ply) ==
    LET depth_ == depth0 - 1
        new_boards == {child(chessboard_, move) :
                          move \in Range(legal_moves(chessboard_).val)}
    IN  IF is_king_dead(chessboard_, chessboard_.turn)
        THEN {Scored(chessboard_, ply)}
        ELSE IF depth_ = 1
        THEN {Scored(new_board, ply + 1) : new_board \in new_boards}
        ELSE UNION {value_scored(new_board, depth_, ply + 1) : new_board \in new_boards}

\* the positions minimax passes to evaluate_board when no call raises
minimax_scored(chessboard_, depth0) ==
    UNION {value_scored(new_board, depth0 + 1, 1) :
              new_board \in {child(chessboard_, move) :
                                move \in Range(legal_moves(chessboard_).val)}}

\* C11: with max_depth = d, every position that minimax scores with both Kings
\* on it is d moves from the root: none is d + 1 moves from it, none fewer
SearchPlies ==
    Called("minimax") /\ result["minimax"].res.ok =>
        \A scored \in minimax_scored(Position, depth) :
            scored.kings => scored.ply = depth

----------------------------------------------------------------------------
(* The recursion of the search, followed along its first line: minimax or  *)
(* alphabeta calls min_value or max_value (or their _ab variants, which    *)
(* recurse under the same conditions) on the first move of the position,   *)
(* which calls the other one on the first move of its position, and so on. *)
(* call is the innermost call: its function, its chessboard and depth      *)
(* arguments, and the number of calls of min_value / max_value it is       *)
(* nested in, itself included.                                             *)

\* the positions the recursion is followed on
DescentBoards == SearchBoards \cup {load_from_input(RookBoard, t) : t \in Side}

InitDescent ==
    /\ \E cb \in DescentBoards : Held(cb)
    /\ depth \in 0 .. MaxDepth

\* "depth += 1 ... best_move = possible_moves[0]" of minimax and alphabeta
CallSearch ==
    /\ call = NoCall
    /\ \E alphabeta_ \in BOOLEAN :
          call' = [op |-> IF alphabeta_ THEN "alphabeta" ELSE "minimax",
                   chessboard |-> Position, depth |-> depth + 1, nested |-> 0]
    /\ UNCHANGED <<heap, chessboard, boards, depth, result, outcome>>

\* the depth the innermost call passes on: minimax and alphabeta pass their
\* incremented depth, min_value and max_value decrement theirs first
passed_depth(frame) ==
    IF frame.op \in {"minimax", "alphabeta"} THEN frame.depth ELSE frame.depth - 1

\* whether the innermost call reaches its for loop and calls min_value or
\* max_value on the first move
recurses(frame) ==
    /\ legal_moves(frame.chessboard).ok
    /\ Len(legal_moves(frame.chessboard).val) > 0
    /\ frame.op \in {"min_value", "max_value"} =>
          /\ ~is_king_dead(frame.chessboard, frame.chessboard.turn)
          /\ passed_depth(frame) # 1

\* the first iteration of the for loop of the innermost call
CallValue ==
    /\ call # NoCall
    /\ call.nested < MaxCalls
    /\ recurses(call)
    /\ call' = [op |-> IF call.op \in {"minimax", "alphabeta"}
                       THEN (IF call.chessboard.turn = Black THEN "max_value"
                                                             ELSE "min_value")
                       ELSE (IF call.op = "min_value" THEN "max_value" ELSE "min_value"),
                chessboard |-> child(call.chessboard,
                                     legal_moves(call.chessboard).val[1]),
                depth |-> passed_depth(call),
                nested |-> call.nested + 1]
    /\ UNCHANGED <<heap, chessboard, boards, depth, result, outcome>>

NextDescent ==
    \/ CallSearch
    \/ CallValue

SpecDescent == InitDescent /\ [][NextDescent]_vars

\* C12: for every max_depth >= 0 the calls of min_value and max_value are
\* nested no deeper than max_depth allows: the search decrements the depth it
\* is given once per call, so no call is nested in more than max_depth + 1
RecursionBounded ==
    call # NoCall => call.nested <= depth + 1

----------------------------------------------------------------------------
(* Properties of the driver loop *)

KingMissing(cb, side) == ~\E c \in Squares : At(cb, c) = Piece(side, King)

\* what the position is replaced by: make_move of a move that is_legal_move
\* accepts on it, while the game goes on
Replaced ==
    /\ outcome = Playing
    /\ call'.op = "make_move"
    /\ is_legal_move(Position, call'.move) = Ok(TRUE)
    /\ Position' = make_move(Position, call'.move).val

\* after a replacement: the game is over iff a King is missing, won by White
\* when it is the Black King and by Black when it is the White King, and it
\* goes on with the turn flipped otherwise
Polled ==
    call.op = "make_move" =>
        /\ outcome = IF KingMissing(Position, Black) THEN "White wins!"
                     ELSE IF KingMissing(Position, White) THEN "Black wins!"
                     ELSE Playing
        /\ Position.turn = Opposite(call.before.turn)

\* C13: the position held changes only by being replaced with make_move of a
\* move that is_legal_move accepts, and right after every replacement the game
\* ends iff a King is missing, with the winner named, no other check ending it
DriverLoop ==
    /\ []Polled
    /\ [][(chessboard' # chessboard \/ Position' # Position) => Replaced]_vars
    /\ [][outcome # Playing => UNCHANGED vars]_vars

\* a move left only the two Kings on the board, and the game goes on
KingsOnlyPlayedOn ==
    /\ call.op = "make_move"
    /\ outcome = Playing
    /\ ~KingMissing(Position, White) /\ ~KingMissing(Position, Black)
    /\ \A c \in Squares : At(Position, c) # None => At(Position, c).material = King

====
